---- MODULE Spec2Model ----
(***************************************************************************)
(* A model of the training tasks (scvi/core/lightning/_vaetask.py), of the *)
(* logger (scvi/core/lightning/_logger.py) and of the Posterior evaluation *)
(* unit (scvi/inference/posterior.py).                                     *)
(*                                                                         *)
(* The specifications share the variables:                                 *)
(*   Spec        the training tasks' steps and the orchestrator's epoch /  *)
(*               step counters                                             *)
(*   SpecOpt     configure_optimizers                                      *)
(*   SpecAgg     training_epoch_end / validation_epoch_end                 *)
(*   SpecAdvEnd  AdvesarialTask.training_epoch_end                         *)
(*   SpecTarget  loss_adversarial_classifier's target matrix               *)
(*   SpecCls     ClassifierTask                                            *)
(*   SpecPost    Posterior construction and derivation                     *)
(*   SpecIter    passes over a Posterior                                   *)
(*   SpecLog     SimpleLogger                                              *)
(*   SpecMix     Posterior.entropy_batch_mixing                            *)
(*   SpecAcc     unsupervised_clustering_accuracy, compute_accuracy_tuple  *)
(*   SpecHier    Posterior.hierarchical_accuracy                           *)
(*   SpecTsne    Posterior.apply_t_sne / show_t_sne                        *)
(* A specification leaves the variables of the others at their idle value. *)
(***************************************************************************)
EXTENDS Integers, Sequences, FiniteSets, TLC

VARIABLES
    task,          \* the task object's construction-time fields
    loss_kwargs,   \* self.loss_kwargs
    current_epoch, \* self.current_epoch (owned by the orchestrator)
    global_step,   \* self.global_step   (owned by the orchestrator)
    call,          \* the last handler call: its inputs and the calls it made
    ret,           \* what the last handler call returned or raised
    logged,        \* the metrics self.log received in the last epoch-end call
    tgt,           \* loss_adversarial_classifier: inputs and cls_target
    heap,          \* the Posterior objects, by identity
    dicts,         \* the data_loader_kwargs dict objects, by identity
    post,          \* the last Posterior call: its inputs and its outcome
    loggers,       \* per process: the SimpleLogger's _data
    sent,          \* per process: the logger calls made so far, in order
    metric         \* an evaluation-metric call: its inputs and its result

taskVars == <<task, loss_kwargs, current_epoch, global_step, call, ret>>
postVars == <<heap, dicts, post>>
logVars == <<loggers, sent>>
vars == <<taskVars, logged, tgt, postVars, logVars, metric>>

-----------------------------------------------------------------------------
(* Bounds *)

MaxEpoch == 2
MaxGlobalStep == 2
MaxHorizon == 2
MaxCells == 4
MaxRecords == 2
MaxClasses == 4

(* Python's None where an integer is expected (a horizon is >= 0). *)
None == -1

-----------------------------------------------------------------------------
(* Numbers.  Python floats are modelled as exact fractions n/d with d > 0. *)

Rat(n, d) == [n |-> n, d |-> d]
Zero == Rat(0, 1)
One == Rat(1, 1)
RatOfInt(i) == Rat(i, 1)
RatEq(a, b) == a.n * b.d = b.n * a.d
RatLess(a, b) == a.n * b.d < b.n * a.d
RatLeq(a, b) == a.n * b.d <= b.n * a.d
RatAdd(a, b) == Rat(a.n * b.d + b.n * a.d, a.d * b.d)
RatSub(a, b) == Rat(a.n * b.d - b.n * a.d, a.d * b.d)
RatMul(a, b) == Rat(a.n * b.n, a.d * b.d)
(* Python's min(a, b): the first argument unless the second is smaller *)
RatMin(a, b) == IF RatLess(b, a) THEN b ELSE a

-----------------------------------------------------------------------------
(* Python dicts as functions from key names to values. *)

EmptyDict == [k \in {} |-> 0]
DictUpdate(d, k, v) == [x \in (DOMAIN d) \cup {k} |-> IF x = k THEN v ELSE d[x]]

RECURSIVE SumSeq(_)
SumSeq(s) == IF s = <<>> THEN 0 ELSE Head(s) + SumSeq(Tail(s))

-----------------------------------------------------------------------------
(* The tasks' construction-time configuration. *)

Horizons == {None} \cup (1..MaxHorizon)

(* scale_adversarial_loss: the literal "auto" or a fixed number *)
Auto == [auto |-> TRUE, val |-> Zero]
Fixed(r) == [auto |-> FALSE, val |-> r]
Scales == {Auto, Fixed(Rat(1, 4)), Fixed(Zero)}

(* which of kl_weight / n_obs the model's loss method declares *)
LossArgSets == SUBSET {"kl_weight", "n_obs"}

TaskBase ==
    [cls : {"VAETask"},
     n_obs_training : {6},
     n_epochs_kl_warmup : Horizons,
     n_steps_kl_warmup : Horizons,
     reduce_lr_on_plateau : BOOLEAN,
     adversarial_classifier : {FALSE},
     scale_adversarial_loss : {Auto},
     loss_args : LossArgSets,
     user_kwargs : BOOLEAN]

Tasks ==
    TaskBase
    \cup [cls : {"AdvesarialTask"},
          n_obs_training : {6},
          n_epochs_kl_warmup : Horizons,
          n_steps_kl_warmup : Horizons,
          reduce_lr_on_plateau : BOOLEAN,
          adversarial_classifier : BOOLEAN,
          scale_adversarial_loss : Scales,
          loss_args : LossArgSets,
          user_kwargs : BOOLEAN]
    \cup [cls : {"SemiSupervisedTask"},
          n_obs_training : {1},
          n_epochs_kl_warmup : Horizons,
          n_steps_kl_warmup : Horizons,
          reduce_lr_on_plateau : BOOLEAN,
          adversarial_classifier : {FALSE},
          scale_adversarial_loss : {Auto},
          loss_args : LossArgSets,
          user_kwargs : {FALSE}]

(* kl_weight with the step criterion tested first *)
kl_weight_StepFirst(t, epoch, step) ==
    IF t.n_steps_kl_warmup # None
    THEN RatMin(One, Rat(step, t.n_steps_kl_warmup))
    ELSE IF t.n_epochs_kl_warmup # None
         THEN RatMin(One, Rat(epoch, t.n_epochs_kl_warmup))
         ELSE One

(* kl_weight without the clamp at 1.0 *)
kl_weight_NoClamp(t, epoch, step) ==
    IF t.n_epochs_kl_warmup # None
    THEN Rat(epoch, t.n_epochs_kl_warmup)
    ELSE IF t.n_steps_kl_warmup # None
         THEN Rat(step, t.n_steps_kl_warmup)
         ELSE One

(* VAETask.kl_weight *)
kl_weight(t, epoch, step) ==
    LET epoch_criterion == t.n_epochs_kl_warmup # None
        step_criterion == t.n_steps_kl_warmup # None
    IN  IF epoch_criterion
        THEN RatMin(One, Rat(epoch, t.n_epochs_kl_warmup))
        ELSE IF step_criterion
             THEN RatMin(One, Rat(step, t.n_steps_kl_warmup))
             ELSE One

(* VAETask.__init__, lines 82-90: self.loss_kwargs after construction.     *)
(* `passed` is the **loss_kwargs dict that reached VAETask.__init__; the   *)
(* counters read 0 while no trainer is attached.                           *)
VAETask_init_loss_kwargs(t, passed) ==
    LET d0 == passed
        d1 == IF "kl_weight" \in t.loss_args
              THEN DictUpdate(d0, "kl_weight", kl_weight(t, 0, 0))
              ELSE d0
    IN  IF "n_obs" \in t.loss_args
        THEN DictUpdate(d1, "n_obs", t.n_obs_training)
        ELSE d1

(* The **loss_kwargs each class hands to VAETask.__init__: VAETask its     *)
(* own, AdvesarialTask and SemiSupervisedTask none (lines 255-267, 438-450)*)
UserKwargs(t) == IF t.user_kwargs THEN DictUpdate(EmptyDict, "extra", "user") ELSE EmptyDict
PassedKwargs(t) == IF t.cls = "VAETask" THEN UserKwargs(t) ELSE EmptyDict

-----------------------------------------------------------------------------
(* Minibatches and what the external model computes on them. *)

(* A minibatch is a mapping with the fields X, BATCH, LABELS holding n     *)
(* cells, or (SemiSupervisedTask) a two-part structure (full, labelled).   *)
Mapping(n) == [keys |-> {"X", "BATCH", "LABELS"}, n |-> n, nl |-> 0]
TwoPart(n, nl) == [keys |-> {}, n |-> n, nl |-> nl]
IsMapping(batch) == batch.keys # {}
(* len(batch) counting named fields only *)
BatchLen_Fields(batch) == Cardinality(batch.keys)

(* len(batch): the number of fields of a mapping, 2 for (full, labelled) *)
BatchLen(batch) == IF IsMapping(batch) THEN Cardinality(batch.keys) ELSE 2

Mappings == {Mapping(n) : n \in 1..MaxCells}
TwoParts == {TwoPart(n, nl) : n \in 1..MaxCells, nl \in {1, 3}}
BatchesFor(t) == IF t.cls = "SemiSupervisedTask" THEN Mappings \cup TwoParts ELSE Mappings

(* The values the external model and classifier return for one call:       *)
(* scvi_loss.loss, the per-cell reconstruction loss and local KL, the      *)
(* global KL, the adversarial classifier's loss for either target, and the *)
(* cross-entropy of model.classify on the labelled part.                   *)
Envs ==
    [loss : {Rat(5, 1)},
     rec : {2},
     kl : {1},
     kl_global : {1},
     fool : {Rat(3, 1)},
     cls : {Rat(2, 1)},
     ce : {Rat(1, 2)}]

(* a per-cell vector of n entries, all v *)
PerCell(n, v) == [i \in 1..n |-> v]

NoReturn == [kind |-> "None"]
Scalar(x) == [kind |-> "tensor", loss |-> x]
Raise(e) == [kind |-> "raise", error |-> e]
StepRecord(loss, n, env) ==
    [kind |-> "dict",
     loss |-> loss,
     reconstruction_loss_sum |-> SumSeq(PerCell(n, env.rec)),
     kl_local_sum |-> SumSeq(PerCell(n, env.kl)),
     kl_global |-> env.kl_global,
     n_obs |-> Len(PerCell(n, env.rec))]
ValidationRecord(n, env) ==
    [kind |-> "dict",
     reconstruction_loss_sum |-> SumSeq(PerCell(n, env.rec)),
     kl_local_sum |-> SumSeq(PerCell(n, env.kl)),
     kl_global |-> env.kl_global,
     n_obs |-> Len(PerCell(n, env.rec))]

(* one call of self.forward: the part of the batch and the loss_kwargs     *)
(* argument (given = FALSE when the argument is omitted)                   *)
Forward(n, kw) == [n |-> n, given |-> TRUE, loss_kwargs |-> kw]
ForwardDefault(n) == [n |-> n, given |-> FALSE, loss_kwargs |-> EmptyDict]

(* what a handler did: its return value, self.loss_kwargs afterwards, the  *)
(* forward calls and loss_adversarial_classifier calls it made (the        *)
(* predict_true_class flag of each), and kappa if it computed one          *)
Outcome(r, kw, fwd, adv, kappa) ==
    [ret |-> r, loss_kwargs |-> kw, forward |-> fwd, adv |-> adv, kappa |-> kappa]

(* a floor of 2 cells instead of 3 *)
TooSmall_Floor2(n) == n < 2

(* the minibatch floor of lines 98, 301 and 466 *)
TooSmall(n) == n < 3

(* VAETask.training_step *)
VAETask_training_step(t, kw, epoch, step, batch, env) ==
    IF TooSmall(batch.n)
    THEN Outcome(NoReturn, kw, <<>>, <<>>, <<>>)
    ELSE LET kw1 == IF "kl_weight" \in DOMAIN kw
                    THEN DictUpdate(kw, "kl_weight", kl_weight(t, epoch, step))
                    ELSE kw
         IN  Outcome(StepRecord(env.loss, batch.n, env), kw1,
                     <<Forward(batch.n, kw1)>>, <<>>, <<>>)

(* VAETask.validation_step *)
VAETask_validation_step(t, kw, batch, env) ==
    Outcome(ValidationRecord(batch.n, env), kw, <<ForwardDefault(batch.n)>>, <<>>, <<>>)

(* kappa that follows the warmup whatever scale_adversarial_loss is *)
Kappa_AlwaysAuto(t, epoch, step) == RatSub(One, kl_weight(t, epoch, step))

(* AdvesarialTask.training_step, lines 303-307 *)
Kappa(t, epoch, step) ==
    IF t.scale_adversarial_loss.auto
    THEN RatSub(One, kl_weight(t, epoch, step))
    ELSE t.scale_adversarial_loss.val

(* What scvi_loss.loss reads after `loss = scvi_loss.loss; loss += x`.     *)
(* The Loss Record's loss field holds the tensor itself, so the in-place   *)
(* addition is seen through the record.                                    *)
LossAfterIadd(loss, x) == RatAdd(loss, x)

(* AdvesarialTask.training_step with the fooling term added to a copy of  *)
(* scvi_loss.loss instead of in place                                      *)
AdvesarialTask_training_step_NotInPlace(t, kw, epoch, step, batch, optimizer_idx, env) ==
    IF TooSmall(batch.n)
    THEN Outcome(NoReturn, kw, <<>>, <<>>, <<>>)
    ELSE LET kappa == Kappa(t, epoch, step)
         IN  IF optimizer_idx = 0
             THEN LET lkw == DictUpdate(EmptyDict, "kl_weight", kl_weight(t, epoch, step))
                      fool == RatLess(Zero, kappa) /\ t.adversarial_classifier # FALSE
                  IN  Outcome(StepRecord(env.loss, batch.n, env), kw,
                              <<Forward(batch.n, lkw)>>,
                              IF fool THEN <<FALSE>> ELSE <<>>, <<kappa>>)
             ELSE IF optimizer_idx = 1
                  THEN Outcome(Scalar(RatMul(env.cls, kappa)), kw, <<>>, <<TRUE>>, <<kappa>>)
                  ELSE Outcome(NoReturn, kw, <<>>, <<>>, <<kappa>>)

(* AdvesarialTask.training_step *)
AdvesarialTask_training_step(t, kw, epoch, step, batch, optimizer_idx, env) ==
    IF TooSmall(batch.n)
    THEN Outcome(NoReturn, kw, <<>>, <<>>, <<>>)
    ELSE LET kappa == Kappa(t, epoch, step)
         IN  IF optimizer_idx = 0
             THEN LET lkw == DictUpdate(EmptyDict, "kl_weight", kl_weight(t, epoch, step))
                      fool == RatLess(Zero, kappa) /\ t.adversarial_classifier # FALSE
                      loss == IF fool
                              THEN LossAfterIadd(env.loss, RatMul(env.fool, kappa))
                              ELSE env.loss
                  IN  Outcome(StepRecord(loss, batch.n, env), kw,
                              <<Forward(batch.n, lkw)>>,
                              IF fool THEN <<FALSE>> ELSE <<>>, <<kappa>>)
             ELSE IF optimizer_idx = 1
                  THEN Outcome(Scalar(RatMul(env.cls, kappa)), kw, <<>>, <<TRUE>>, <<kappa>>)
                  ELSE Outcome(NoReturn, kw, <<>>, <<>>, <<kappa>>)

classification_ratio == 50

(* SemiSupervisedTask.training_step *)
SemiSupervisedTask_training_step(t, kw, batch, env) ==
    LET two == BatchLen(batch) = 2
        labelled == two
    IN  IF TooSmall(batch.n)
        THEN Outcome(NoReturn, kw, <<>>, <<>>, <<>>)
        ELSE LET input_kwargs == DictUpdate(EmptyDict, "feed_labels", FALSE)
                 loss == IF labelled
                         THEN RatAdd(env.loss, RatMul(env.ce, RatOfInt(classification_ratio)))
                         ELSE env.loss
             IN  Outcome(StepRecord(loss, batch.n, env), kw,
                         <<Forward(batch.n, input_kwargs)>>, <<>>, <<>>)

(* training_step as the task's class dispatches it *)
training_step(t, kw, epoch, step, batch, optimizer_idx, env) ==
    CASE t.cls = "VAETask" -> VAETask_training_step(t, kw, epoch, step, batch, env)
      [] t.cls = "AdvesarialTask" ->
            AdvesarialTask_training_step(t, kw, epoch, step, batch, optimizer_idx, env)
      [] t.cls = "SemiSupervisedTask" -> SemiSupervisedTask_training_step(t, kw, batch, env)

-----------------------------------------------------------------------------
(* configure_optimizers *)

Adam(params, lr) == [params |-> params, lr |-> lr]
ReduceLROnPlateau(optimizer) == [optimizer |-> optimizer]
Configured(opts, scheds) == [kind |-> "optimizers", opts |-> opts, scheds |-> scheds]

(* lines 157-178 and 349-368: the config dict both classes build first *)
PlateauConfig(t) ==
    LET optimizer == Adam("model", "self.lr")
        config == DictUpdate(EmptyDict, "optimizer", optimizer)
    IN  IF t.reduce_lr_on_plateau
        THEN DictUpdate(DictUpdate(config, "lr_scheduler", ReduceLROnPlateau(optimizer)),
                        "monitor", "lr_scheduler_metric")
        ELSE config

(* a returned config dict {"optimizer", ["lr_scheduler", "monitor"]} as    *)
(* the optimizers and schedulers the orchestrator gets from it             *)
FromConfig(config) ==
    Configured(<<config["optimizer"]>>,
               IF "lr_scheduler" \in DOMAIN config
               THEN <<config["lr_scheduler"]>> ELSE <<>>)

(* VAETask.configure_optimizers *)
VAETask_configure_optimizers(t) == FromConfig(PlateauConfig(t))

(* AdvesarialTask.configure_optimizers *)
AdvesarialTask_configure_optimizers(t) ==
    LET config1 == PlateauConfig(t)
    IN  IF t.adversarial_classifier # FALSE
        THEN LET optimizer2 == Adam("adversarial_classifier", "1e-3")
                 opts == <<config1["optimizer"], optimizer2>>
             IN  \* config1.pop("lr_scheduler") raises when the key is absent
                 IF "lr_scheduler" \in DOMAIN config1
                 THEN Configured(opts, <<config1["lr_scheduler"]>>)
                 ELSE Raise("KeyError")
        ELSE FromConfig(config1)

configure_optimizers(t) ==
    IF t.cls = "AdvesarialTask"
    THEN AdvesarialTask_configure_optimizers(t)
    ELSE VAETask_configure_optimizers(t)

-----------------------------------------------------------------------------
(* Idle values of the variables a specification does not use. *)

NoEnv == CHOOSE e \in Envs : TRUE
NoCall ==
    [op |-> "none", batch |-> Mapping(0), optimizer_idx |-> 0,
     forward |-> <<>>, adv |-> <<>>, kappa |-> <<>>, env |-> NoEnv]
NoTask == CHOOSE t \in TaskBase : TRUE
NoLogged == [kind |-> "none"]
NoTgt == [kind |-> "none"]
NoPost == [op |-> "none"]

TaskIdle ==
    /\ task = NoTask
    /\ loss_kwargs = EmptyDict
    /\ current_epoch = 0
    /\ global_step = 0
    /\ call = NoCall
    /\ ret = NoReturn
AggIdle == logged = NoLogged
TargetIdle == tgt = NoTgt
PostIdle ==
    /\ heap = <<>>
    /\ dicts = <<>>
    /\ post = NoPost
NoMetric == [kind |-> "none"]
LogIdle ==
    /\ loggers = <<>>
    /\ sent = <<>>
MetricIdle == metric = NoMetric

-----------------------------------------------------------------------------
(* Spec: a constructed task driven by the orchestrator. *)

(* the optimizer indices the orchestrator passes: one per configured       *)
(* optimizer (index 1 only with an adversarial classifier, line 331)       *)
OptimizerIndices(t) ==
    IF t.cls = "AdvesarialTask" /\ t.adversarial_classifier # FALSE THEN {0, 1} ELSE {0}

(* The tasks Spec starts from.  No step reads reduce_lr_on_plateau (only   *)
(* configure_optimizers does, see SpecOpt), and only VAETask hands the     *)
(* caller's **loss_kwargs on, so these are fixed here.                     *)
StepTasks ==
    {t \in Tasks : /\ ~t.reduce_lr_on_plateau
                   /\ (t.user_kwargs => t.cls = "VAETask")}

Init ==
    /\ task \in StepTasks
    /\ loss_kwargs = VAETask_init_loss_kwargs(task, PassedKwargs(task))
    /\ current_epoch = 0
    /\ global_step = 0
    /\ call = NoCall
    /\ ret = NoReturn
    /\ AggIdle /\ TargetIdle /\ PostIdle /\ LogIdle /\ MetricIdle

Called(op, batch, optimizer_idx, env, r) ==
    [op |-> op, batch |-> batch, optimizer_idx |-> optimizer_idx,
     forward |-> r.forward, adv |-> r.adv, kappa |-> r.kappa, env |-> env]

TrainingStep ==
    \E batch \in BatchesFor(task), optimizer_idx \in OptimizerIndices(task), env \in Envs :
        LET r == training_step(task, loss_kwargs, current_epoch, global_step,
                               batch, optimizer_idx, env)
        IN  /\ ret' = r.ret
            /\ loss_kwargs' = r.loss_kwargs
            /\ call' = Called("training_step", batch, optimizer_idx, env, r)
            /\ UNCHANGED <<task, current_epoch, global_step, logged, tgt, postVars, logVars, metric>>

ValidationStep ==
    \E batch \in Mappings, env \in Envs :
        LET r == VAETask_validation_step(task, loss_kwargs, batch, env)
        IN  /\ ret' = r.ret
            /\ loss_kwargs' = r.loss_kwargs
            /\ call' = Called("validation_step", batch, 0, env, r)
            /\ UNCHANGED <<task, current_epoch, global_step, logged, tgt, postVars, logVars, metric>>

(* The orchestrator finishes an optimizer step / an epoch.  It has taken   *)
(* the last handler's return value by then: call and ret describe a        *)
(* handler call made at the current counters.                              *)
AdvanceStep ==
    /\ global_step < MaxGlobalStep
    /\ global_step' = global_step + 1
    /\ call' = NoCall
    /\ ret' = NoReturn
    /\ UNCHANGED <<task, loss_kwargs, current_epoch, logged, tgt, postVars, logVars, metric>>

AdvanceEpoch ==
    /\ current_epoch < MaxEpoch
    /\ current_epoch' = current_epoch + 1
    /\ call' = NoCall
    /\ ret' = NoReturn
    /\ UNCHANGED <<task, loss_kwargs, global_step, logged, tgt, postVars, logVars, metric>>

Next ==
    \/ TrainingStep
    \/ ValidationStep
    \/ AdvanceStep
    \/ AdvanceEpoch

Spec == Init /\ [][Next]_vars

-----------------------------------------------------------------------------
(* SpecOpt: configure_optimizers on a freshly constructed task. *)

InitOpt ==
    /\ task \in Tasks
    /\ loss_kwargs = VAETask_init_loss_kwargs(task, PassedKwargs(task))
    /\ current_epoch = 0
    /\ global_step = 0
    /\ call = NoCall
    /\ ret = NoReturn
    /\ AggIdle /\ TargetIdle /\ PostIdle /\ LogIdle /\ MetricIdle

ConfigureOptimizers ==
    /\ ret' = configure_optimizers(task)
    /\ call' = [NoCall EXCEPT !.op = "configure_optimizers"]
    /\ UNCHANGED <<task, loss_kwargs, current_epoch, global_step, logged, tgt, postVars, logVars, metric>>

NextOpt == ConfigureOptimizers

SpecOpt == InitOpt /\ [][NextOpt]_vars

-----------------------------------------------------------------------------
(* Claims about the training steps (Spec). *)

He == task.n_epochs_kl_warmup
Hs == task.n_steps_kl_warmup

(* min(1.0, c / h) written out by cases, for a horizon h > 0 *)
Ramp(c, h) == IF c >= h THEN One ELSE Rat(c, h)

(* the kl_weight the specification prescribes at the current counters *)
PrescribedKlWeight ==
    IF He # None THEN Ramp(current_epoch, He)
    ELSE IF Hs # None THEN Ramp(global_step, Hs)
    ELSE One

IsTrainingStep == call.op = "training_step"
Ran == IsTrainingStep /\ ret # NoReturn
IsAdv == task.cls = "AdvesarialTask"

(* C2: kl_weight is min(1, current_epoch / He) whenever the epoch horizon  *)
(* is set (the step horizon and global_step are then ignored), else        *)
(* min(1, global_step / Hs) when the step horizon is set, else 1.0; this   *)
(* is also the value every training step hands to the model's forward.     *)
C2_KlWeightSchedule ==
    /\ RatEq(kl_weight(task, current_epoch, global_step), PrescribedKlWeight)
    /\ \A i \in 1..Len(call.forward) :
          (IsTrainingStep /\ "kl_weight" \in DOMAIN call.forward[i].loss_kwargs)
             => RatEq(call.forward[i].loss_kwargs["kl_weight"], PrescribedKlWeight)

(* both horizons set and disagreeing, and a step has passed kl_weight on *)
C2_Witness ==
    /\ He # None /\ Hs # None
    /\ ~RatEq(Ramp(current_epoch, He), Ramp(global_step, Hs))
    /\ current_epoch > 0
    /\ Ran /\ call.forward # <<>>
    /\ "kl_weight" \in DOMAIN call.forward[1].loss_kwargs

(* C3: a training step of any of the three tasks returns None exactly when *)
(* the minibatch (its full-dataset part) has fewer than 3 cells; a skipped *)
(* step calls neither forward nor the adversarial classifier and leaves    *)
(* self.loss_kwargs as it was; a step on 3 or more cells returns a result. *)
C3_SkipState ==
    IsTrainingStep =>
        /\ (ret = NoReturn) <=> (call.batch.n < 3)
        /\ (call.batch.n < 3) => (call.forward = <<>> /\ call.adv = <<>>)
        /\ (call.batch.n >= 3) => ret.kind \in {"dict", "tensor"}
C3_SkipFrame ==
    (call'.op = "training_step" /\ call'.batch.n < 3) => loss_kwargs' = loss_kwargs
C3_SmallBatchSkipped == []C3_SkipState /\ [][C3_SkipFrame]_vars

(* a skipped two-part step whose labelled part is large, at a time when a  *)
(* refresh would have changed the stored kl_weight                         *)
C3_Witness ==
    /\ IsTrainingStep /\ ret = NoReturn
    /\ task.cls = "SemiSupervisedTask"
    /\ call.batch.n = 2 /\ call.batch.nl = 3
    /\ "kl_weight" \in DOMAIN loss_kwargs
    /\ ~RatEq(loss_kwargs["kl_weight"], kl_weight(task, current_epoch, global_step))

(* C5: with scale "auto" and an epoch horizon, kappa is 1 at epoch 0,      *)
(* stays within [0, 1], never increases, and is 0 from epoch He on; from   *)
(* then on an optimizer-0 step adds no fooling term and an optimizer-1     *)
(* step returns a zero loss.  kl_weight never decreases nor exceeds 1.     *)
AutoEpoch == IsAdv /\ task.scale_adversarial_loss.auto /\ He # None
KappaNow == Kappa(task, current_epoch, global_step)
C5_State ==
    AutoEpoch =>
        /\ current_epoch = 0 => RatEq(KappaNow, One)
        /\ RatLeq(Zero, KappaNow) /\ RatLeq(KappaNow, One)
        /\ RatLeq(kl_weight(task, current_epoch, global_step), One)
        /\ current_epoch >= He => RatEq(KappaNow, Zero)
        /\ (Ran /\ current_epoch >= He /\ call.optimizer_idx = 0) =>
               (call.adv = <<>> /\ RatEq(ret.loss, call.env.loss))
        /\ (Ran /\ current_epoch >= He /\ call.optimizer_idx = 1) =>
               RatEq(ret.loss, Zero)
C5_Step ==
    AutoEpoch =>
        /\ RatLeq(Kappa(task', current_epoch', global_step'), KappaNow)
        /\ RatLeq(kl_weight(task, current_epoch, global_step),
                  kl_weight(task', current_epoch', global_step'))
C5_AutoScaleDecays == []C5_State /\ [][C5_Step]_vars

(* an optimizer-1 step past the horizon, after kappa has come down *)
C5_Witness ==
    /\ AutoEpoch /\ task.adversarial_classifier
    /\ current_epoch > He
    /\ Ran /\ call.optimizer_idx = 1

(* C6: AdvesarialTask.training_step uses kappa = the fixed scale when one  *)
(* is configured, whatever the counters, and kappa = 1 - kl_weight at the  *)
(* current counters when the scale is "auto".                              *)
C6_KappaSelection ==
    (IsTrainingStep /\ IsAdv /\ call.kappa # <<>>) =>
        /\ task.scale_adversarial_loss.auto =>
               RatEq(call.kappa[1], RatSub(One, kl_weight(task, current_epoch, global_step)))
        /\ ~task.scale_adversarial_loss.auto =>
               RatEq(call.kappa[1], task.scale_adversarial_loss.val)
        /\ (Ran /\ call.optimizer_idx = 1) =>
               RatEq(ret.loss, RatMul(call.env.cls, call.kappa[1]))

(* a fixed scale of 1/4 used while 1 - kl_weight is something else *)
C6_Witness ==
    /\ IsAdv /\ Ran
    /\ task.scale_adversarial_loss = Fixed(Rat(1, 4))
    /\ call.kappa = <<Rat(1, 4)>>
    /\ current_epoch > 0
    /\ ~RatEq(RatSub(One, kl_weight(task, current_epoch, global_step)), Rat(1, 4))

-----------------------------------------------------------------------------
(* Claims about configure_optimizers (SpecOpt). *)

(* C4: with an adversarial classifier, configure_optimizers returns two    *)
(* optimizers (the model's parameters at self.lr, the classifier's at      *)
(* 0.001) whether or not plateau reduction is enabled, with a scheduler    *)
(* only when enabled and then only on optimizer 0.                         *)
C4_TwoOptimizers ==
    (call.op = "configure_optimizers" /\ IsAdv /\ task.adversarial_classifier # FALSE) =>
        /\ ret.kind = "optimizers"
        /\ ret.opts = <<Adam("model", "self.lr"), Adam("adversarial_classifier", "1e-3")>>
        /\ ret.scheds = IF task.reduce_lr_on_plateau
                        THEN <<ReduceLROnPlateau(ret.opts[1])>>
                        ELSE <<>>

-----------------------------------------------------------------------------
(* SpecAgg: epoch-end aggregation of the step records of one epoch. *)

(* the step records an epoch can hand over: the fields of StepRecord /     *)
(* ValidationRecord that the aggregation reads                             *)
RecordValues ==
    [reconstruction_loss_sum : {10, 20},
     kl_local_sum : {2, 4},
     kl_global : {1, 2},
     n_obs : {1, 5}]

RECURSIVE SeqsUpTo(_, _)
SeqsUpTo(S, n) ==
    IF n = 0 THEN {<<>>}
    ELSE LET shorter == SeqsUpTo(S, n - 1)
         IN  shorter \cup {Append(q, x) : q \in {r \in shorter : Len(r) = n - 1}, x \in S}

OutputLists == SeqsUpTo(RecordValues, MaxRecords)

(* lines 117-122 / 143-148: the loop over outputs, from the accumulators   *)
(* acc = (n_obs, elbo, rec_loss, kl_local)                                 *)
RECURSIVE Accumulate(_, _)
Accumulate(acc, outputs) ==
    IF outputs = <<>> THEN acc
    ELSE LET tensors == Head(outputs)
         IN  Accumulate(
                 [n_obs |-> acc.n_obs + tensors.n_obs,
                  elbo |-> acc.elbo + (tensors.reconstruction_loss_sum + tensors.kl_local_sum),
                  rec_loss |-> acc.rec_loss + tensors.reconstruction_loss_sum,
                  kl_local |-> acc.kl_local + tensors.kl_local_sum],
                 Tail(outputs))

Logged(prefix, elbo, rec, kl_local, kl_global) ==
    [kind |-> "logged", prefix |-> prefix, elbo |-> elbo, reconstruction_loss |-> rec,
     kl_local |-> kl_local, kl_global |-> kl_global]

(* the aggregation with kl_global preset to 0 before the loop, so that an  *)
(* empty list of records gets as far as the divisions                      *)
epoch_end_PresetKl(outputs, prefix) ==
    LET acc == Accumulate([n_obs |-> 0, elbo |-> 0, rec_loss |-> 0, kl_local |-> 0], outputs)
        kl_global == IF outputs = <<>> THEN 0 ELSE outputs[Len(outputs)].kl_global
        elbo == acc.elbo + kl_global
    IN  IF acc.n_obs = 0
        THEN Raise("ZeroDivisionError")
        ELSE Logged(prefix,
                    Rat(elbo, acc.n_obs),
                    Rat(acc.rec_loss, acc.n_obs),
                    Rat(acc.kl_local, acc.n_obs),
                    RatOfInt(kl_global))

(* VAETask.training_epoch_end / validation_epoch_end: the same body, with  *)
(* the metric names' suffix "train" / "validation"                         *)
epoch_end(outputs, prefix) ==
    LET acc == Accumulate([n_obs |-> 0, elbo |-> 0, rec_loss |-> 0, kl_local |-> 0], outputs)
    IN  IF outputs = <<>>
        THEN \* the loop variable `tensors` was never bound (line 124 / 150)
             Raise("UnboundLocalError")
        ELSE LET kl_global == outputs[Len(outputs)].kl_global
                 elbo == acc.elbo + kl_global
             IN  IF acc.n_obs = 0
                 THEN Raise("ZeroDivisionError")
                 ELSE Logged(prefix,
                             Rat(elbo, acc.n_obs),
                             Rat(acc.rec_loss, acc.n_obs),
                             Rat(acc.kl_local, acc.n_obs),
                             RatOfInt(kl_global))

VAETask_training_epoch_end(outputs) == epoch_end(outputs, "train")
VAETask_validation_epoch_end(outputs) == epoch_end(outputs, "validation")

InitAgg ==
    /\ TaskIdle /\ TargetIdle /\ PostIdle /\ LogIdle /\ MetricIdle
    /\ logged \in [kind : {"outputs"}, outputs : OutputLists]

(* a training epoch's records come from steps that were not skipped *)
TrainingEpochEnd ==
    /\ logged.kind = "outputs"
    /\ \A i \in 1..Len(logged.outputs) : ~TooSmall(logged.outputs[i].n_obs)
    /\ logged' = [kind |-> "epoch_end", op |-> "training_epoch_end",
                  outputs |-> logged.outputs,
                  out |-> VAETask_training_epoch_end(logged.outputs)]
    /\ UNCHANGED <<task, loss_kwargs, current_epoch, global_step, call, ret, tgt,
                   postVars, logVars, metric>>

ValidationEpochEnd ==
    /\ logged.kind = "outputs"
    /\ logged' = [kind |-> "epoch_end", op |-> "validation_epoch_end",
                  outputs |-> logged.outputs,
                  out |-> VAETask_validation_epoch_end(logged.outputs)]
    /\ UNCHANGED <<task, loss_kwargs, current_epoch, global_step, call, ret, tgt,
                   postVars, logVars, metric>>

NextAgg ==
    \/ TrainingEpochEnd
    \/ ValidationEpochEnd

SpecAgg == InitAgg /\ [][NextAgg]_vars

(* Claims about the aggregation (SpecAgg). *)

RECURSIVE SumOver(_, _)
SumOver(outputs, field) ==
    IF outputs = <<>> THEN 0 ELSE Head(outputs)[field] + SumOver(Tail(outputs), field)

(* C1: for a non-empty list of step records, the logged elbo is            *)
(* (sum of reconstruction sums + sum of local-KL sums) / (sum of n_obs)    *)
(* + the last record's global KL, the global KL not being divided.         *)
C1_ElboFormula ==
    (logged.kind = "epoch_end" /\ logged.outputs # <<>>) =>
        /\ logged.out.kind = "logged"
        /\ RatEq(logged.out.elbo,
                 RatAdd(Rat(SumOver(logged.outputs, "reconstruction_loss_sum")
                              + SumOver(logged.outputs, "kl_local_sum"),
                            SumOver(logged.outputs, "n_obs")),
                        RatOfInt(logged.outputs[Len(logged.outputs)].kl_global)))

(* an epoch-end handler ran on an epoch that handed over no step record *)
EmptyEpoch == logged.kind = "epoch_end" /\ logged.outputs = <<>>

-----------------------------------------------------------------------------
(* SpecTarget: the target matrix of loss_adversarial_classifier. *)

(* Tensors of shape (cells, n_classes) are sequences of rows; entries are  *)
(* fractions.  batch_index[i] in 0..n_classes-1 is the batch of cell i,    *)
(* and column j of a row stands for class j - 1.                           *)

(* scvi.core.modules._utils.one_hot, as line 285 / 287 uses it *)
one_hot(batch_index, n_classes) ==
    [i \in 1..Len(batch_index) |->
        [j \in 1..n_classes |-> IF j - 1 = batch_index[i] THEN One ELSE Zero]]

zeros_like(m) == [i \in 1..Len(m) |-> [j \in 1..Len(m[i]) |-> Zero]]
ones_like(m) == [i \in 1..Len(m) |-> [j \in 1..Len(m[i]) |-> One]]
(* tensor / integer, entry by entry; x / 0 is the float inf, written 1/0 *)
DivideBy(m, k) == [i \in 1..Len(m) |-> [j \in 1..Len(m[i]) |-> Rat(m[i][j].n, m[i][j].d * k)]]
(* ~tensor.bool() *)
NotBool(m) == [i \in 1..Len(m) |-> [j \in 1..Len(m[i]) |-> RatEq(m[i][j], Zero)]]

RECURSIVE Flatten(_)
Flatten(m) == IF m = <<>> THEN <<>> ELSE Head(m) \o Flatten(Tail(m))
Reshape(flat, rows, cols) ==
    [i \in 1..rows |-> [j \in 1..cols |-> flat[(i - 1) * cols + j]]]

(* torch.Tensor.masked_scatter_ on the flattened tensors: position i of    *)
(* self takes the next unread element of source wherever mask is true      *)
RECURSIVE ScatterFlat(_, _, _, _, _)
ScatterFlat(self, mask, source, i, k) ==
    IF i > Len(self) THEN self
    ELSE IF mask[i]
         THEN ScatterFlat([self EXCEPT ![i] = source[k]], mask, source, i + 1, k + 1)
         ELSE ScatterFlat(self, mask, source, i + 1, k)
masked_scatter_(self, mask, source) ==
    IF self = <<>> THEN self
    ELSE Reshape(ScatterFlat(Flatten(self), Flatten(mask), Flatten(source), 1, 1),
                 Len(self), Len(self[1]))

(* the fooling target with the true class's one-hot row kept in place *)
cls_target_Unmasked(batch_index, n_classes, predict_true_class) ==
    IF predict_true_class
    THEN one_hot(batch_index, n_classes)
    ELSE DivideBy(ones_like(one_hot(batch_index, n_classes)), n_classes - 1)

(* AdvesarialTask.loss_adversarial_classifier, lines 281-292: cls_target *)
cls_target(batch_index, n_classes, predict_true_class) ==
    IF predict_true_class
    THEN one_hot(batch_index, n_classes)
    ELSE LET one_hot_batch == one_hot(batch_index, n_classes)
             zeros == zeros_like(one_hot_batch)
         IN  masked_scatter_(zeros, NotBool(one_hot_batch),
                             DivideBy(ones_like(one_hot_batch), n_classes - 1))

(* the arguments of one call: the batch indices of 1..MaxCells cells *)
TargetInputs ==
    UNION {[kind : {"input"}, n_classes : {n}, predict_true_class : BOOLEAN,
            batch_index : UNION {[1..cells -> 0..(n - 1)] : cells \in 1..MaxCells}]
           : n \in 1..MaxClasses}

InitTarget ==
    /\ TaskIdle /\ AggIdle /\ PostIdle /\ LogIdle /\ MetricIdle
    /\ tgt \in TargetInputs

LossAdversarialClassifier ==
    /\ tgt.kind = "input"
    /\ tgt' = [kind |-> "target", n_classes |-> tgt.n_classes,
               batch_index |-> tgt.batch_index,
               predict_true_class |-> tgt.predict_true_class,
               cls_target |-> cls_target(tgt.batch_index, tgt.n_classes,
                                         tgt.predict_true_class)]
    /\ UNCHANGED <<task, loss_kwargs, current_epoch, global_step, call, ret, logged,
                   postVars, logVars, metric>>

NextTarget == LossAdversarialClassifier

SpecTarget == InitTarget /\ [][NextTarget]_vars

RECURSIVE RatSum(_)
RatSum(row) == IF row = <<>> THEN Zero ELSE RatAdd(Head(row), RatSum(Tail(row)))

(* C7: with n >= 2 batch classes, the fooling target (predict_true_class   *)
(* = False) of a cell of batch b is 0 at index b and 1/(n-1) at every      *)
(* other index, so the row sums to 1; with predict_true_class = True the   *)
(* row is the one-hot vector of b.                                         *)
C7_FoolingTarget ==
    (tgt.kind = "target" /\ tgt.n_classes >= 2) =>
        /\ Len(tgt.cls_target) = Len(tgt.batch_index)
        /\ \A i \in 1..Len(tgt.batch_index) :
              LET row == tgt.cls_target[i]
                  b == tgt.batch_index[i]
              IN  /\ Len(row) = tgt.n_classes
                  /\ \A c \in 0..(tgt.n_classes - 1) :
                        RatEq(row[c + 1],
                              IF tgt.predict_true_class
                              THEN (IF c = b THEN One ELSE Zero)
                              ELSE (IF c = b THEN Zero ELSE Rat(1, tgt.n_classes - 1)))
                  /\ RatEq(RatSum(row), One)

(* the specification's example: 3 classes, true batch 0, target [0, 1/2, 1/2] *)
C7_Witness ==
    /\ tgt.kind = "target" /\ tgt.n_classes = 3 /\ ~tgt.predict_true_class
    /\ Len(tgt.batch_index) >= 2 /\ tgt.batch_index[1] = 0 /\ tgt.batch_index[2] = 2
    /\ tgt.cls_target[1] = <<Zero, Rat(1, 2), Rat(1, 2)>>

-----------------------------------------------------------------------------
(* Posterior (inference/posterior.py): a model, a dataset and a data loader *)
(* over a subset of the cells.  Posterior objects live in heap and their    *)
(* data_loader_kwargs dictionaries in dicts; an object holds its            *)
(* dictionary by address, so that aliasing between units is expressible.    *)

MaxDataset == 3
MaxIndices == 2
MaxUnits == 3

(* an optional index list: Python's None, or a list *)
NoIndices == <<>>
Given(I) == <<I>>
IsGiven(indices) == indices # NoIndices

arange(n) == [i \in 1..n |-> i - 1]

Injective(q) == \A i, j \in DOMAIN q : q[i] = q[j] => i = j

IndexLists(n) == {q \in SeqsUpTo(0..(n - 1), MaxIndices) : Injective(q)}

(* every ordering of the elements of a list *)
Perms(q) ==
    {[i \in DOMAIN q |-> q[f[i]]] : f \in {g \in [DOMAIN q -> DOMAIN q] : Injective(g)}}

len(gene_dataset) == gene_dataset.len

SequentialSampler(data_source) ==
    [cls |-> "SequentialSampler", data_source |-> data_source]
RandomSampler(data_source) ==
    [cls |-> "RandomSampler", data_source |-> data_source]
SubsetRandomSampler(indices) ==
    [cls |-> "SubsetRandomSampler", indices |-> indices]
SequentialSubsetSampler(indices) ==
    [cls |-> "SequentialSubsetSampler", indices |-> indices]

hasattr(obj, name) == name \in DOMAIN obj

(* SequentialSubsetSampler inheriting SubsetRandomSampler's iteration *)
SequentialSubsetSampler___iter___Inherited(sampler) == Perms(sampler.indices)

(* the orders one pass of SequentialSubsetSampler can produce *)
SequentialSubsetSampler___iter__(sampler) == {sampler.indices}

(* the orders one pass of a sampler can produce *)
sampler_iter(sampler) ==
    CASE sampler.cls = "SequentialSampler" -> {arange(len(sampler.data_source))}
      [] sampler.cls = "RandomSampler" -> Perms(arange(len(sampler.data_source)))
      [] sampler.cls = "SubsetRandomSampler" -> Perms(sampler.indices)
      [] sampler.cls = "SequentialSubsetSampler" ->
            SequentialSubsetSampler___iter__(sampler)

dict_update(d, other) ==
    [k \in (DOMAIN d) \cup (DOMAIN other) |->
        IF k \in DOMAIN other THEN other[k] ELSE d[k]]

(* DataLoader(gene_dataset, **kwargs): batch_size defaults to 1 *)
DataLoader(gene_dataset, kwargs) ==
    [dataset |-> gene_dataset,
     batch_size |-> IF "batch_size" \in DOMAIN kwargs THEN kwargs["batch_size"] ELSE 1,
     collate_fn |-> kwargs["collate_fn"],
     sampler |-> kwargs["sampler"]]

(* consecutive batches of batch_size, the last one possibly shorter *)
RECURSIVE Batches(_, _)
Batches(order, batch_size) ==
    IF order = <<>> THEN <<>>
    ELSE IF Len(order) <= batch_size THEN <<order>>
    ELSE <<SubSeq(order, 1, batch_size)>>
         \o Batches(SubSeq(order, batch_size + 1, Len(order)), batch_size)

(* the passes iter(data_loader) can produce *)
DataLoader___iter__(data_loader) ==
    {Batches(order, data_loader.batch_size) : order \in sampler_iter(data_loader.sampler)}

(* the guard of the constructor with "indices" tested for truthiness *)
MutuallyExclusive_Truthy(indices, shuffle) ==
    IsGiven(indices) /\ indices[1] # <<>> /\ shuffle

(* indices is not None and shuffle *)
MutuallyExclusive(indices, shuffle) == IsGiven(indices) /\ shuffle

Created(h, d, id) == [heap |-> h, dicts |-> d, ret |-> [kind |-> "Posterior", id |-> id]]
Failed(h, d, e) == [heap |-> h, dicts |-> d, ret |-> Raise(e)]

(* update without the copy: the original's dictionary itself *)
update_copy_kwargs_Alias(d, a) == [dicts |-> d, addr |-> a]

(* copy.copy(self.data_loader_kwargs) in update: a new dictionary holding  *)
(* the items of the dictionary at address a                                *)
update_copy_kwargs(d, a) == [dicts |-> Append(d, d[a]), addr |-> Len(d) + 1]

(* Posterior(model, gene_dataset, shuffle, indices, data_loader_kwargs).   *)
(* The fields "bound" and "origin" are history: the index list the unit    *)
(* was constructed with (copied, like every attribute, by copy.copy) and   *)
(* the call that produced the object.                                      *)
Posterior___init__(h, d, model, gene_dataset, shuffle, indices, data_loader_kwargs) ==
    IF MutuallyExclusive(indices, shuffle) THEN Failed(h, d, "ValueError")
    ELSE LET sampler == IF ~IsGiven(indices)
                        THEN (IF shuffle THEN RandomSampler(gene_dataset)
                                         ELSE SequentialSampler(gene_dataset))
                        ELSE SubsetRandomSampler(indices[1])
             kwargs == dict_update(data_loader_kwargs,
                                   [collate_fn |-> gene_dataset.collate_fn,
                                    sampler |-> sampler])
             self == [model |-> model,
                      gene_dataset |-> gene_dataset,
                      data_loader_kwargs |-> Len(d) + 1,
                      data_loader |-> DataLoader(gene_dataset, kwargs),
                      bound |-> indices,
                      origin |-> [op |-> "__init__"]]
         IN  Created(Append(h, self), Append(d, kwargs), Len(h) + 1)

(* the indices property *)
indices(self) ==
    IF hasattr(self.data_loader.sampler, "indices")
    THEN self.data_loader.sampler.indices
    ELSE arange(len(self.gene_dataset))

(* self.update(data_loader_kwargs), called by origin *)
Posterior_update(h, d, self, data_loader_kwargs, origin) ==
    LET copied == update_copy_kwargs(d, h[self].data_loader_kwargs)
        kwargs == dict_update(copied.dicts[copied.addr], data_loader_kwargs)
        posterior == [h[self] EXCEPT
                        !.data_loader_kwargs = copied.addr,
                        !.data_loader = DataLoader(h[self].gene_dataset, kwargs),
                        !.origin = origin]
    IN  Created(Append(h, posterior),
                [copied.dicts EXCEPT ![copied.addr] = kwargs],
                Len(h) + 1)

Posterior_sequential(h, d, self, batch_size) ==
    Posterior_update(h, d, self,
                     [batch_size |-> batch_size,
                      sampler |-> SequentialSubsetSampler(indices(h[self]))],
                     [op |-> "sequential", self |-> self, batch_size |-> batch_size])

Posterior_corrupted(h, d, self) ==
    Posterior_update(h, d, self,
                     [collate_fn |-> h[self].gene_dataset.collate_fn_corrupted],
                     [op |-> "corrupted", self |-> self])

Posterior_uncorrupted(h, d, self) ==
    Posterior_update(h, d, self,
                     [collate_fn |-> h[self].gene_dataset.collate_fn],
                     [op |-> "uncorrupted", self |-> self])

(* iter(self): the passes over the data loader *)
Posterior___iter__(self) == DataLoader___iter__(self.data_loader)

-----------------------------------------------------------------------------
(* SpecPost: one unit is constructed; units are derived from it and from   *)
(* each other.                                                             *)

Model == "model"
GeneDatasets ==
    {[len |-> MaxDataset,
      collate_fn |-> "collate_fn",
      collate_fn_corrupted |-> "collate_fn_corrupted"]}
IndicesArgs == {NoIndices} \cup {Given(I) : I \in IndexLists(MaxDataset)}
BatchSizes == 1..MaxIndices
KwargsArgs == {EmptyDict} \cup {[batch_size |-> b] : b \in {MaxIndices}}

PostCall(op, self, args, r) == [op |-> op, self |-> self, args |-> args, ret |-> r]

Units == 1..Len(heap)

InitPost ==
    /\ TaskIdle /\ AggIdle /\ TargetIdle /\ PostIdle /\ LogIdle /\ MetricIdle

Effect(op, self, args, r) ==
    /\ heap' = r.heap
    /\ dicts' = r.dicts
    /\ post' = PostCall(op, self, args, r.ret)
    /\ UNCHANGED <<taskVars, logged, tgt, logVars, metric>>

Construct ==
    /\ heap = <<>> /\ post = NoPost
    /\ \E gene_dataset \in GeneDatasets, shuffle \in BOOLEAN,
          I \in IndicesArgs, kwargs \in KwargsArgs :
          Effect("__init__", 0,
                 [shuffle |-> shuffle, indices |-> I, data_loader_kwargs |-> kwargs],
                 Posterior___init__(heap, dicts, Model, gene_dataset, shuffle, I, kwargs))

Update ==
    /\ Len(heap) < MaxUnits
    /\ \E self \in Units, kwargs \in KwargsArgs \ {EmptyDict} :
          Effect("update", self, [data_loader_kwargs |-> kwargs],
                 Posterior_update(heap, dicts, self, kwargs,
                                  [op |-> "update", self |-> self]))

Sequential ==
    /\ Len(heap) < MaxUnits
    /\ \E self \in Units, batch_size \in BatchSizes :
          Effect("sequential", self, [batch_size |-> batch_size],
                 Posterior_sequential(heap, dicts, self, batch_size))

Corrupted ==
    /\ Len(heap) < MaxUnits
    /\ \E self \in Units :
          Effect("corrupted", self, <<>>, Posterior_corrupted(heap, dicts, self))

Uncorrupted ==
    /\ Len(heap) < MaxUnits
    /\ \E self \in Units :
          Effect("uncorrupted", self, <<>>, Posterior_uncorrupted(heap, dicts, self))

Iterate ==
    /\ \E self \in Units : \E pass \in Posterior___iter__(heap[self]) :
          /\ post' = PostCall("__iter__", self, <<>>, [kind |-> "batches", batches |-> pass])
          /\ UNCHANGED <<taskVars, logged, tgt, heap, dicts, logVars, metric>>

NextPost ==
    \/ Construct
    \/ Update
    \/ Sequential
    \/ Corrupted
    \/ Uncorrupted

SpecPost == InitPost /\ [][NextPost]_vars

(* SpecIter: the unit, its sequential derivations, and passes over them *)
NextIter ==
    \/ Construct
    \/ Sequential
    \/ Iterate

SpecIter == InitPost /\ [][NextIter]_vars

-----------------------------------------------------------------------------
(* Claims about the Posterior. *)

SameCells(order, I) ==
    /\ Len(order) = Len(I)
    /\ \A x \in 0..(MaxDataset - 1) :
          Cardinality({i \in DOMAIN order : order[i] = x})
              = Cardinality({i \in DOMAIN I : I[i] = x})

Constructed == post.op = "__init__"

(* C8: constructing with an index list (empty or not) and shuffle = True   *)
(* raises ValueError and no Posterior, dictionary, sampler or data loader  *)
(* exists afterwards; every other combination returns a unit whose         *)
(* sampler, in its data loader and in its data_loader_kwargs, is a subset  *)
(* sampler over exactly the given indices, a random sampler whose passes   *)
(* are the permutations of 0..N-1, or a sequential sampler whose pass is   *)
(* 0..N-1 in increasing order.                                             *)
C8_Construction ==
    Constructed =>
        LET a == post.args
        IN  IF IsGiven(a.indices) /\ a.shuffle
            THEN /\ post.ret.kind = "raise"
                 /\ post.ret.error = "ValueError"
                 /\ heap = <<>>
                 /\ dicts = <<>>
            ELSE /\ post.ret.kind = "Posterior"
                 /\ post.ret.id \in Units
                 /\ LET self == heap[post.ret.id]
                        sampler == self.data_loader.sampler
                        N == len(self.gene_dataset)
                    IN  /\ dicts[self.data_loader_kwargs]["sampler"] = sampler
                        /\ IsGiven(a.indices) =>
                              /\ sampler.cls = "SubsetRandomSampler"
                              /\ sampler.indices = a.indices[1]
                              /\ \A order \in sampler_iter(sampler) :
                                    SameCells(order, a.indices[1])
                        /\ (~IsGiven(a.indices) /\ a.shuffle) =>
                              /\ sampler.cls = "RandomSampler"
                              /\ \A order \in sampler_iter(sampler) :
                                    SameCells(order, arange(N))
                              /\ Cardinality(sampler_iter(sampler)) > 1
                        /\ (~IsGiven(a.indices) /\ ~a.shuffle) =>
                              /\ sampler.cls = "SequentialSampler"
                              /\ sampler_iter(sampler) = {[i \in 1..N |-> i - 1]}

(* an index list together with shuffle = True was rejected *)
C8_Witness ==
    /\ Constructed
    /\ post.args.shuffle /\ post.args.indices = Given(<<2, 0>>)
    /\ post.ret.kind = "raise"

Passed == post.op = "__iter__"

BoundTo(self) ==
    IF IsGiven(self.bound) THEN self.bound[1] ELSE arange(len(self.gene_dataset))

(* C9: a pass over a unit returned by sequential(batch_size = b) yields    *)
(* batches whose concatenation is the index list I the unit was            *)
(* constructed with (0..N-1 in increasing order when it was constructed    *)
(* without indices, shuffled or not), every batch but the last of b cells  *)
(* and the last of 1..b cells; the unit has exactly one possible pass, so  *)
(* repeated passes are identical.                                          *)
C9_SequentialPass ==
    /\ \A u \in Units :
          heap[u].origin.op = "sequential" =>
              Cardinality(Posterior___iter__(heap[u])) = 1
    /\ (Passed /\ heap[post.self].origin.op = "sequential") =>
          LET self == heap[post.self]
              b == self.origin.batch_size
              batches == post.ret.batches
          IN  /\ Flatten(batches) = BoundTo(self)
              /\ \A k \in 1..Len(batches) :
                    /\ Len(batches[k]) >= 1
                    /\ Len(batches[k]) <= b
                    /\ k < Len(batches) => Len(batches[k]) = b

(* a pass in batches of 1 over a unit bound to [2, 0] *)
C9_Witness ==
    /\ Passed
    /\ heap[post.self].origin.op = "sequential"
    /\ heap[post.self].bound = Given(<<2, 0>>)
    /\ post.ret.batches = <<<<2>>, <<0>>>>

Derived(self) == self.origin.op \in {"update", "sequential", "corrupted", "uncorrupted"}

(* the sampling options a unit reports: its dictionary and its data loader *)
Options(h, d, u) ==
    [data_loader_kwargs |-> d[h[u].data_loader_kwargs], data_loader |-> h[u].data_loader]

C10_State ==
    /\ \A u \in Units :
          Derived(heap[u]) =>
              LET original == heap[u].origin.self
              IN  /\ original \in Units /\ original < u
                  /\ heap[u].model = heap[original].model
                  /\ heap[u].gene_dataset = heap[original].gene_dataset
    /\ \A u, v \in Units :
          u # v => heap[u].data_loader_kwargs # heap[v].data_loader_kwargs
    /\ (post.op \in {"update", "sequential", "corrupted", "uncorrupted"}) =>
          /\ post.ret.kind = "Posterior"
          /\ post.ret.id = Len(heap)
          /\ post.ret.id # post.self
          /\ heap[post.ret.id].origin.self = post.self

C10_Frame ==
    /\ Len(heap') >= Len(heap)
    /\ \A u \in Units :
          /\ heap'[u] = heap[u]
          /\ Options(heap', dicts', u) = Options(heap, dicts, u)

(* C10: sequential, corrupted, uncorrupted and update each return a new    *)
(* unit that shares the model and the dataset of the unit it was derived   *)
(* from and holds a data_loader_kwargs dictionary of its own; no call      *)
(* changes the data_loader_kwargs (sampler, batch size, collate_fn) or the *)
(* data loader of any unit that already exists, whichever unit the call    *)
(* is made on.                                                             *)
C10_DerivationIndependent == []C10_State /\ [][C10_Frame]_vars

(* a unit, a sequential unit derived from it with another batch size, and  *)
(* a corrupted unit derived afterwards from the first                      *)
C10_Witness ==
    /\ Len(heap) = 3
    /\ heap[2].origin = [op |-> "sequential", self |-> 1, batch_size |-> 1]
    /\ heap[3].origin = [op |-> "corrupted", self |-> 1]
    /\ heap[1].data_loader.batch_size = 2
    /\ heap[2].data_loader.batch_size = 1
    /\ heap[1].data_loader.collate_fn = "collate_fn"
    /\ heap[3].data_loader.collate_fn = "collate_fn_corrupted"

-----------------------------------------------------------------------------
(* SimpleLogger (core/lightning/_logger.py).  Every process of a run holds *)
(* its own SimpleLogger; process p has rank p.                             *)

MaxRank == 1
MaxCalls == 2

Ranks == 0..MaxRank

(* a metric value: a plain number, or a tensor holding one *)
Plain(v) == [tensor |-> FALSE, v |-> v]
Tensor(v) == [tensor |-> TRUE, v |-> v]
MetricNames == {"elbo_train", "kl_local_train"}
MetricValues == {Plain(1), Tensor(2)}
MetricDicts == UNION {[names -> MetricValues] : names \in (SUBSET MetricNames) \ {{}}}
LogSteps == {0, 1}

isinstance_Tensor(value) == value.tensor
item(value) == Plain(value.v)

(* the value stored as it was passed *)
handle_value_Wrapper(value) == value

(* log_metrics._handle_value *)
handle_value(value) == IF isinstance_Tensor(value) THEN item(value) ELSE value

(* the wrapped method runs in every process *)
rank_zero_only_EveryRank(rank) == TRUE

(* @rank_zero_only: the wrapped method runs only in the process of rank 0 *)
rank_zero_only(rank) == rank = 0

(* SimpleLogger.__init__: self._data *)
SimpleLogger___init__ == EmptyDict

(* the body of log_metrics on self._data *)
log_metrics(data, metrics, step) ==
    [m \in (DOMAIN data) \cup (DOMAIN metrics) |->
        IF m \in DOMAIN metrics
        THEN Append(IF m \in DOMAIN data THEN data[m] ELSE <<>>, handle_value(metrics[m]))
        ELSE data[m]]

(* the body of log_hyperparams: pass *)
log_hyperparams(data, params) == data

(* the history property *)
history(data) == data

RECURSIVE TotalLen(_)
TotalLen(q) == IF q = <<>> THEN 0 ELSE Len(Head(q)) + TotalLen(Tail(q))
CallsMade == TotalLen([i \in 1..(MaxRank + 1) |-> sent[i - 1]])

InitLog ==
    /\ TaskIdle /\ AggIdle /\ TargetIdle /\ PostIdle /\ MetricIdle
    /\ loggers = [p \in Ranks |-> SimpleLogger___init__]
    /\ sent = [p \in Ranks |-> <<>>]

LogMetrics ==
    /\ CallsMade < MaxCalls
    /\ \E p \in Ranks, metrics \in MetricDicts, step \in LogSteps :
          /\ loggers' = IF rank_zero_only(p)
                        THEN [loggers EXCEPT ![p] = log_metrics(loggers[p], metrics, step)]
                        ELSE loggers
          /\ sent' = [sent EXCEPT ![p] =
                         Append(@, [op |-> "log_metrics", metrics |-> metrics, step |-> step])]
          /\ UNCHANGED <<taskVars, logged, tgt, postVars, metric>>

LogHyperparams ==
    /\ CallsMade < MaxCalls
    /\ \E p \in Ranks :
          /\ loggers' = IF rank_zero_only(p)
                        THEN [loggers EXCEPT ![p] = log_hyperparams(loggers[p], "params")]
                        ELSE loggers
          /\ sent' = [sent EXCEPT ![p] =
                         Append(@, [op |-> "log_hyperparams", metrics |-> EmptyDict, step |-> 0])]
          /\ UNCHANGED <<taskVars, logged, tgt, postVars, metric>>

NextLog ==
    \/ LogMetrics
    \/ LogHyperparams

SpecLog == InitLog /\ [][NextLog]_vars

-----------------------------------------------------------------------------
(* Claims about the SimpleLogger (SpecLog). *)

(* the plain numbers passed for metric m by the log_metrics calls of a     *)
(* process, in call order                                                  *)
RECURSIVE PassedFor(_, _)
PassedFor(calls, m) ==
    IF calls = <<>> THEN <<>>
    ELSE LET c == Head(calls)
         IN  (IF c.op = "log_metrics" /\ m \in DOMAIN c.metrics
              THEN <<c.metrics[m].v>> ELSE <<>>)
             \o PassedFor(Tail(calls), m)

PlainNumbers(q) == [i \in DOMAIN q |-> q[i].v]

IsPrefix(q, r) == Len(q) <= Len(r) /\ SubSeq(r, 1, Len(q)) = q

LastCall(p) == sent'[p][Len(sent'[p])]

C11_State ==
    LET h == history(loggers[0])
    IN  /\ DOMAIN h = {m \in MetricNames : PassedFor(sent[0], m) # <<>>}
        /\ \A m \in DOMAIN h :
              /\ PlainNumbers(h[m]) = PassedFor(sent[0], m)
              /\ \A i \in DOMAIN h[m] : ~h[m][i].tensor

C11_Step ==
    LET h == history(loggers[0])
        hNext == history(loggers'[0])
    IN  /\ \A m \in DOMAIN h : m \in DOMAIN hNext /\ IsPrefix(h[m], hNext[m])
        /\ (sent'[0] # sent[0] /\ LastCall(0).op = "log_hyperparams") => hNext = h
        /\ (sent'[0] # sent[0] /\ LastCall(0).op = "log_metrics") =>
              \A m \in DOMAIN LastCall(0).metrics : Len(hNext[m]) = Len(PassedFor(sent[0], m)) + 1

(* C11: in the rank-zero process the history holds, for every metric name  *)
(* passed to log_metrics so far, exactly the values passed for it in call  *)
(* order, each as a plain number (a tensor's item()), whatever the step    *)
(* argument; a call only appends: recorded values are never removed,       *)
(* reordered or rewritten, and log_hyperparams changes nothing.            *)
C11_HistoryAppendOnly == []C11_State /\ [][C11_Step]_vars

(* the same metric logged twice, first as a plain number, then as a tensor *)
C11_Witness ==
    /\ Len(sent[0]) = 2
    /\ sent[0][1].op = "log_metrics" /\ sent[0][2].op = "log_metrics"
    /\ "elbo_train" \in DOMAIN sent[0][1].metrics
    /\ "elbo_train" \in DOMAIN sent[0][2].metrics
    /\ sent[0][1].metrics["elbo_train"] = Plain(1)
    /\ sent[0][2].metrics["elbo_train"] = Tensor(2)
    /\ sent[0][1].step = 1 /\ sent[0][2].step = 0
    /\ loggers[0]["elbo_train"] = <<Plain(1), Plain(2)>>

C12_State ==
    \A p \in Ranks \ {0} : history(loggers[p]) = SimpleLogger___init__

C12_Step ==
    /\ \A p \in Ranks \ {0} : loggers'[p] = loggers[p]
    /\ loggers'[0] # loggers[0] =>
          (sent'[0] # sent[0] /\ LastCall(0).op = "log_metrics")

(* C12: whatever the interleaving of the processes' calls, a log_metrics   *)
(* or log_hyperparams call made in a process of rank other than 0 leaves   *)
(* that process's history (and every other's) as it was, so such a history *)
(* stays empty; the rank-zero history changes only by a log_metrics call   *)
(* made in the rank-zero process.                                          *)
C12_RankZeroOnly == []C12_State /\ [][C12_Step]_vars

(* rank 1 has logged metrics, then rank 0, and only rank 0 recorded *)
C12_Witness ==
    /\ Len(sent[1]) = 1 /\ sent[1][1].op = "log_metrics"
    /\ Len(sent[0]) = 1 /\ sent[0][1].op = "log_metrics"
    /\ loggers[1] = EmptyDict
    /\ loggers[0] # EmptyDict

-----------------------------------------------------------------------------
(* SpecMix: Posterior.entropy_batch_mixing on a constructed unit. *)

MaxBatches == 3

MixDatasets ==
    {[len |-> MaxDataset,
      collate_fn |-> "collate_fn",
      collate_fn_corrupted |-> "collate_fn_corrupted",
      n_batches |-> n] : n \in 0..MaxBatches}

(* the scores the module-level entropy_batch_mixing can return *)
BeScores == {Rat(1, 2), Rat(2, 3)}

(* a batch count of two or more *)
TwoBatches_AtLeast(n_batches) == n_batches >= 2

(* self.gene_dataset.n_batches == 2 *)
TwoBatches(n_batches) == n_batches = 2

(* get_latent: one pass over self, one model call per minibatch; torch.cat *)
(* of an empty list raises                                                 *)
Posterior_get_latent(self) ==
    {[pass |-> pass,
      model_calls |-> Len(pass),
      ret |-> IF pass = <<>> THEN Raise("RuntimeError")
              ELSE [kind |-> "latent", cells |-> Flatten(pass)]] :
        pass \in Posterior___iter__(self)}

(* Posterior.entropy_batch_mixing: the outcomes it can have *)
Posterior_entropy_batch_mixing(self, verbose) ==
    IF TwoBatches(self.gene_dataset.n_batches)
    THEN {[ret |-> IF g.ret.kind = "raise" THEN g.ret
                   ELSE [kind |-> "score", be_score |-> be_score],
           passes |-> <<g.pass>>,
           model_calls |-> g.model_calls,
           printed |-> verbose /\ g.ret.kind # "raise"] :
             g \in Posterior_get_latent(self), be_score \in BeScores}
    ELSE {[ret |-> NoReturn, passes |-> <<>>, model_calls |-> 0, printed |-> FALSE]}

InitMix ==
    /\ TaskIdle /\ AggIdle /\ TargetIdle /\ LogIdle /\ MetricIdle
    /\ post = NoPost
    /\ \E gene_dataset \in MixDatasets, shuffle \in BOOLEAN,
          I \in IndicesArgs, kwargs \in KwargsArgs :
          LET r == Posterior___init__(<<>>, <<>>, Model, gene_dataset, shuffle, I, kwargs)
          IN  /\ r.ret.kind = "Posterior"
              /\ heap = r.heap
              /\ dicts = r.dicts

EntropyBatchMixing ==
    /\ \E self \in Units, verbose \in BOOLEAN :
          \E r \in Posterior_entropy_batch_mixing(heap[self], verbose) :
              post' = PostCall("entropy_batch_mixing", self, [verbose |-> verbose], r)
    /\ UNCHANGED <<taskVars, logged, tgt, heap, dicts, logVars, metric>>

NextMix == EntropyBatchMixing

SpecMix == InitMix /\ [][NextMix]_vars

MixCalled == post.op = "entropy_batch_mixing"

(* C13: entropy_batch_mixing returns None, having made no pass over the    *)
(* data and no model call and having raised nothing, whenever the          *)
(* dataset's n_batches is not 2; a score is returned only when n_batches   *)
(* is 2, after one pass over the bound data.                               *)
C13_EntropyOnlyTwoBatches ==
    MixCalled =>
        LET n_batches == heap[post.self].gene_dataset.n_batches
            r == post.ret
        IN  /\ n_batches # 2 =>
                  /\ r.ret = NoReturn
                  /\ r.passes = <<>>
                  /\ r.model_calls = 0
            /\ n_batches = 2 =>
                  /\ r.ret.kind \in {"score", "raise"}
                  /\ Len(r.passes) = 1
                  /\ r.passes[1] # <<>> => r.ret.kind = "score"
            /\ r.ret.kind = "score" => (n_batches = 2 /\ r.ret.be_score \in BeScores)

(* three batches: no result *)
C13_Witness ==
    /\ MixCalled
    /\ heap[post.self].gene_dataset.n_batches = 3
    /\ post.ret.ret = NoReturn

-----------------------------------------------------------------------------
(* SpecAcc: the accuracy functions of inference/posterior.py applied to a  *)
(* vector of true labels and a vector of predictions of the same length.   *)

MaxLabels == 2
MaxLen == 4

LabelVectors(k) == [1..k -> 0..(MaxLabels - 1)]
AccInput(y, y_pred) == [kind |-> "input", y |-> y, y_pred |-> y_pred]

unique(y) == {y[i] : i \in DOMAIN y}

RECURSIVE SetSum(_, _)
SetSum(S, f) ==
    IF S = {} THEN 0
    ELSE LET x == CHOOSE x \in S : TRUE IN f[x] + SetSum(S \ {x}, f)

RECURSIVE Maximum(_)
Maximum(S) ==
    LET x == CHOOSE x \in S : TRUE
    IN  IF S = {x} THEN x
        ELSE LET m == Maximum(S \ {x}) IN IF x > m THEN x ELSE m

(* reward_matrix[y_pred_, y_] after the counting loop of lines 539-541 *)
reward_matrix(y, y_pred, n_clusters) ==
    [i \in 0..(n_clusters - 1) |-> [j \in 0..(n_clusters - 1) |->
        Cardinality({c \in DOMAIN y : y_pred[c] = i /\ y[c] = j})]]

(* the reward matrix itself taken as the cost *)
cost_matrix_Reward(reward, n_clusters) == reward

(* cost_matrix = reward_matrix.max() - reward_matrix *)
cost_matrix(reward, n_clusters) ==
    LET top == Maximum({reward[i][j] : i, j \in 0..(n_clusters - 1)})
    IN  [i \in 0..(n_clusters - 1) |-> [j \in 0..(n_clusters - 1) |-> top - reward[i][j]]]

(* the row-to-column assignments: one column per row, no column twice *)
Assignments(n) == {f \in [0..(n - 1) -> 0..(n - 1)] : \A i, j \in 0..(n - 1) : f[i] = f[j] => i = j}

Total(matrix, f) == SetSum(DOMAIN f, [i \in DOMAIN f |-> matrix[i][f[i]]])

(* linear_assignment(cost_matrix): the assignments of least total cost *)
linear_assignment(cost, n) ==
    LET all == Assignments(n)
        least == -Maximum({-Total(cost, g) : g \in all})
    IN  {f \in all : Total(cost, f) = least}

(* unsupervised_clustering_accuracy(y, y_pred): its possible results *)
unsupervised_clustering_accuracy(y, y_pred) ==
    LET n_clusters == Cardinality(unique(y))
    IN  IF \E c \in DOMAIN y : y[c] >= n_clusters \/ y_pred[c] >= n_clusters
        THEN {Raise("IndexError")}
        ELSE IF n_clusters = 0
        THEN {Raise("ValueError")}
        ELSE LET reward == reward_matrix(y, y_pred, n_clusters)
                 cost == cost_matrix(reward, n_clusters)
             IN  {[kind |-> "value",
                   accuracy |-> Rat(Total(reward, ind), Len(y_pred)),
                   ind |-> ind] : ind \in linear_assignment(cost, n_clusters)}

RECURSIVE RatSumOver(_, _)
RatSumOver(S, f) ==
    IF S = {} THEN Zero
    ELSE LET x == CHOOSE x \in S : TRUE IN RatAdd(f[x], RatSumOver(S \ {x}, f))

(* np.mean of a boolean vector with `size` entries, `count` of them True *)
np_mean_bool(count, size) == Rat(count, size)

(* np.dot(a, b) of two lists of the same length *)
np_dot(a, b) == RatSumOver(DOMAIN a, [i \in DOMAIN a |-> RatMul(a[i], b[i])])

(* np.mean of a list of numbers *)
np_mean(a) ==
    LET total == RatSumOver(DOMAIN a, a) IN Rat(total.n, total.d * Len(a))

(* np.min of a non-empty list of numbers *)
RECURSIVE np_min(_)
np_min(a) == IF Len(a) = 1 THEN a[1] ELSE RatMin(np_min(Tail(a)), a[1])

(* the share of the cells predicted cl that are truly cl (the precision) *)
accuracy_class_Precision(y, y_pred, cl) ==
    LET idx == {c \in DOMAIN y : y_pred[c] = cl}
    IN  IF idx # {} THEN np_mean_bool(Cardinality({c \in idx : y[c] = y_pred[c]}),
                                      Cardinality(idx))
        ELSE Zero

(* lines 568-570: accuracy_classes[cl] *)
accuracy_class(y, y_pred, cl) ==
    LET idx == {c \in DOMAIN y : y[c] = cl}
        classes_probability == np_mean_bool(Cardinality(idx), Len(y))
    IN  IF classes_probability.n # 0
        THEN np_mean_bool(Cardinality({c \in idx : y[c] = y_pred[c]}), Cardinality(idx))
        ELSE Zero

(* compute_accuracy_tuple(y, y_pred) *)
compute_accuracy_tuple(y, y_pred) ==
    LET n_labels == Cardinality(unique(y))
        classes_probabilities ==
            [k \in 1..n_labels |->
                np_mean_bool(Cardinality({c \in DOMAIN y : y[c] = k - 1}), Len(y))]
        accuracy_classes == [k \in 1..n_labels |-> accuracy_class(y, y_pred, k - 1)]
    IN  IF n_labels = 0
        THEN Raise("UnboundLocalError")
        ELSE [kind |-> "Accuracy",
              unweighted |-> np_dot(accuracy_classes, classes_probabilities),
              weighted |-> np_mean(accuracy_classes),
              worst |-> np_min(accuracy_classes),
              accuracy_classes |-> accuracy_classes]

InitAcc ==
    /\ TaskIdle /\ AggIdle /\ TargetIdle /\ PostIdle /\ LogIdle
    /\ \E k \in 0..MaxLen : \E y \in LabelVectors(k), y_pred \in LabelVectors(k) :
          metric = AccInput(y, y_pred)

MetricCall(op, input, r) == [kind |-> op, y |-> input.y, y_pred |-> input.y_pred, ret |-> r]

UnsupervisedClusteringAccuracy ==
    /\ metric.kind = "input"
    /\ \E r \in unsupervised_clustering_accuracy(metric.y, metric.y_pred) :
          metric' = MetricCall("unsupervised_clustering_accuracy", metric, r)
    /\ UNCHANGED <<taskVars, logged, tgt, postVars, logVars>>

ComputeAccuracyTuple ==
    /\ metric.kind = "input"
    /\ metric' = MetricCall("compute_accuracy_tuple", metric,
                            compute_accuracy_tuple(metric.y, metric.y_pred))
    /\ UNCHANGED <<taskVars, logged, tgt, postVars, logVars>>

NextAcc ==
    \/ UnsupervisedClusteringAccuracy
    \/ ComputeAccuracyTuple

SpecAcc == InitAcc /\ [][NextAcc]_vars

-----------------------------------------------------------------------------
(* Claims about the accuracy functions (SpecAcc). *)

Cells == DOMAIN metric.y
NClasses == Cardinality(unique(metric.y))
AllClassesPresent == metric.y # <<>> /\ unique(metric.y) = 0..(NClasses - 1)

(* the cells whose predicted cluster is assigned to their true label *)
Matched(assignment) ==
    Cardinality({c \in Cells : assignment[metric.y_pred[c]] = metric.y[c]})

(* C14: when y holds every class of 0..n-1 and y_pred is y with the class  *)
(* ids permuted, the accuracy is exactly 1; whenever y holds every class   *)
(* of 0..n-1 and the predicted ids lie in 0..n-1 a result is returned, and *)
(* every returned accuracy is the largest, over the one-to-one             *)
(* assignments of clusters to labels, of the fraction of cells whose       *)
(* cluster is assigned to their true label.                                *)
C14_BestAssignmentAccuracy ==
    metric.kind = "unsupervised_clustering_accuracy" =>
        /\ metric.ret.kind = "value" =>
              /\ AllClassesPresent
              /\ RatEq(metric.ret.accuracy,
                       Rat(Maximum({Matched(a) : a \in Assignments(NClasses)}),
                           Len(metric.y)))
        /\ (AllClassesPresent /\ \A c \in Cells : metric.y_pred[c] < NClasses) =>
              metric.ret.kind = "value"
        /\ (AllClassesPresent
            /\ \E p \in Assignments(NClasses) :
                  metric.y_pred = [c \in Cells |-> p[metric.y[c]]]) =>
              /\ metric.ret.kind = "value"
              /\ metric.ret.accuracy.n = metric.ret.accuracy.d

(* the specification's example: [0,0,1,1] against the relabeling [1,1,0,0] *)
C14_Witness ==
    /\ metric.kind = "unsupervised_clustering_accuracy"
    /\ metric.y = <<0, 0, 1, 1>> /\ metric.y_pred = <<1, 1, 0, 0>>
    /\ metric.ret.kind = "value"
    /\ metric.ret.accuracy = Rat(4, 4)

CellsOf(c) == {i \in Cells : metric.y[i] = c}
Recall(c) ==
    IF CellsOf(c) = {} THEN Zero
    ELSE Rat(Cardinality({i \in CellsOf(c) : metric.y_pred[i] = c}), Cardinality(CellsOf(c)))
Prior(c) == Rat(Cardinality(CellsOf(c)), Len(metric.y))

(* C15: for a non-empty y with n distinct labels, accuracy_classes has one *)
(* entry per class c of 0..n-1, the fraction of the cells of true label c  *)
(* predicted c (0 when no cell has label c); unweighted is the sum of      *)
(* these weighted by the classes' shares of the cells (the overall         *)
(* fraction of correct cells when the labels are exactly 0..n-1), weighted *)
(* is their plain mean and worst their minimum.                            *)
C15_AccuracyTuple ==
    (metric.kind = "compute_accuracy_tuple" /\ metric.y # <<>>) =>
        LET r == metric.ret
            classes == 0..(NClasses - 1)
        IN  /\ r.kind = "Accuracy"
            /\ Len(r.accuracy_classes) = NClasses
            /\ \A c \in classes : RatEq(r.accuracy_classes[c + 1], Recall(c))
            /\ RatEq(r.unweighted,
                     RatSumOver(classes, [c \in classes |-> RatMul(Recall(c), Prior(c))]))
            /\ AllClassesPresent =>
                  RatEq(r.unweighted,
                        Rat(Cardinality({i \in Cells : metric.y[i] = metric.y_pred[i]}),
                            Len(metric.y)))
            /\ RatEq(RatMul(r.weighted, RatOfInt(NClasses)),
                     RatSumOver(classes, [c \in classes |-> Recall(c)]))
            /\ \A c \in classes : RatLeq(r.worst, Recall(c))
            /\ \E c \in classes : RatEq(r.worst, Recall(c))

(* y = [0,0,1], y_pred = [0,1,1]: recalls 1/2 and 1, 2/3, 3/4 and 1/2 *)
C15_Witness ==
    /\ metric.kind = "compute_accuracy_tuple"
    /\ metric.y = <<0, 0, 1>> /\ metric.y_pred = <<0, 1, 1>>
    /\ RatEq(metric.ret.accuracy_classes[1], Rat(1, 2))
    /\ RatEq(metric.ret.accuracy_classes[2], One)
    /\ RatEq(metric.ret.unweighted, Rat(2, 3))
    /\ RatEq(metric.ret.weighted, Rat(3, 4))
    /\ RatEq(metric.ret.worst, Rat(1, 2))

-----------------------------------------------------------------------------
(* SpecHier: Posterior.hierarchical_accuracy on the predictions of a pass  *)
(* and the model's labels_groups table.                                    *)

(* self.model.labels_groups: the group of each label *)
GroupTables == [0..(MaxLabels - 1) -> 0..1]

HierInput(y, y_pred, labels_groups) ==
    [kind |-> "input", y |-> y, y_pred |-> y_pred, labels_groups |-> labels_groups]

(* np.mean(a == b) of two vectors of the same, non-zero, length *)
np_mean_eq(a, b) == np_mean_bool(Cardinality({i \in DOMAIN a : a[i] = b[i]}), Len(a))

(* line 293 / 294: [self.model.labels_groups[y] for y in all_y] *)
groups_of(labels_groups, all_y) == [i \in DOMAIN all_y |-> labels_groups[all_y[i]]]

(* lines 288-299: the two accuracies computed, what verbose prints, and    *)
(* the value returned                                                      *)
Posterior_hierarchical_accuracy(all_y, all_y_pred, labels_groups, verbose) ==
    LET acc == np_mean_eq(all_y, all_y_pred)
        all_y_groups == groups_of(labels_groups, all_y)
        all_y_pred_groups == groups_of(labels_groups, all_y_pred)
        h_acc == np_mean_eq(all_y_groups, all_y_pred_groups)
    IN  [printed |-> IF verbose THEN <<acc, h_acc>> ELSE <<>>,
         ret |-> acc]

InitHier ==
    /\ TaskIdle /\ AggIdle /\ TargetIdle /\ PostIdle /\ LogIdle
    /\ \E k \in 1..MaxLen : \E y \in LabelVectors(k), y_pred \in LabelVectors(k) :
          \E labels_groups \in GroupTables :
              metric = HierInput(y, y_pred, labels_groups)

HierarchicalAccuracy ==
    /\ metric.kind = "input"
    /\ \E verbose \in BOOLEAN :
          LET r == Posterior_hierarchical_accuracy(metric.y, metric.y_pred,
                                                   metric.labels_groups, verbose)
          IN  metric' = [kind |-> "hierarchical_accuracy",
                         y |-> metric.y, y_pred |-> metric.y_pred,
                         labels_groups |-> metric.labels_groups,
                         printed |-> r.printed, ret |-> r.ret]
    /\ UNCHANGED <<taskVars, logged, tgt, postVars, logVars>>

NextHier == HierarchicalAccuracy

SpecHier == InitHier /\ [][NextHier]_vars

(* the cells whose predicted label lies in the group of their true label *)
SameGroup ==
    {c \in DOMAIN metric.y :
        metric.labels_groups[metric.y_pred[c]] = metric.labels_groups[metric.y[c]]}

(* C23: hierarchical_accuracy returns the group-level accuracy, the        *)
(* fraction of cells whose predicted label's labels_groups entry equals    *)
(* that of the true label.                                                 *)
C23_GroupLevelAccuracy ==
    metric.kind = "hierarchical_accuracy" =>
        RatEq(metric.ret, Rat(Cardinality(SameGroup), Len(metric.y)))

-----------------------------------------------------------------------------
(* SpecTsne: Posterior.apply_t_sne and the part of show_t_sne that calls   *)
(* it.  An array is [rows, dim]: rows lists, in order, the cell (0-based   *)
(* position in the pass) each row belongs to, dim is shape[1].             *)

Array(rows, dim) == [rows |-> rows, dim |-> dim]

(* latent.shape[1]: already two-dimensional, or not *)
LatentDims == {2, 3}

(* n_samples: 0 (no subsampling), fewer than, as many as or more than the  *)
(* cells of the pass                                                       *)
SampleCounts == 0..(MaxLen + 1)

(* a[idx]: the rows of a at the positions idx *)
take(a, idx) == Array([j \in DOMAIN idx |-> a.rows[idx[j] + 1]], a.dim)

(* q[:n] for n >= 0 *)
prefix(q, n) == SubSeq(q, 1, IF n < Len(q) THEN n ELSE Len(q))

(* TSNE().fit_transform(x): one two-dimensional point per row of x *)
TSNE_fit_transform(x) == Array(x.rows, 2)

(* Posterior.apply_t_sne, lines 375-380: the (latent, idx_t_sne) pairs it  *)
(* can return, one per outcome of np.random.permutation                    *)
apply_t_sne(latent, n_samples) ==
    LET n == Len(latent.rows)
        idxs == IF n_samples # 0
                THEN {prefix(p, n_samples) : p \in Perms(arange(n))}
                ELSE {arange(n)}
    IN  {[latent |-> IF latent.dim # 2
                     THEN TSNE_fit_transform(take(latent, idx_t_sne))
                     ELSE latent,
          idx_t_sne |-> idx_t_sne] : idx_t_sne \in idxs}

(* Posterior.get_latent on a pass of n cells with codes of dimension dim:  *)
(* latent, batch_indices, labels, one row per cell                         *)
get_latent_arrays(n, dim) ==
    [latent |-> Array(arange(n), dim),
     batch_indices |-> Array(arange(n), 1),
     labels |-> Array(arange(n), 1)]

(* show_t_sne with latent=None, lines 327-331: the arrays it goes on to    *)
(* plot                                                                    *)
show_t_sne_arrays(n, dim, n_samples) ==
    LET got == get_latent_arrays(n, dim)
    IN  {[latent |-> r.latent,
          batch_indices |-> take(got.batch_indices, r.idx_t_sne).rows,
          labels |-> take(got.labels, r.idx_t_sne).rows] :
            r \in apply_t_sne(got.latent, n_samples)}

InitTsne ==
    /\ TaskIdle /\ AggIdle /\ TargetIdle /\ PostIdle /\ LogIdle
    /\ metric \in [kind : {"input"}, n : 1..MaxLen, dim : LatentDims,
                   n_samples : SampleCounts]

ApplyTSne ==
    /\ metric.kind = "input"
    /\ \E r \in apply_t_sne(Array(arange(metric.n), metric.dim), metric.n_samples) :
          metric' = [kind |-> "apply_t_sne", n |-> metric.n, dim |-> metric.dim,
                     n_samples |-> metric.n_samples,
                     latent |-> r.latent, idx_t_sne |-> r.idx_t_sne]
    /\ UNCHANGED <<taskVars, logged, tgt, postVars, logVars>>

ShowTSne ==
    /\ metric.kind = "input"
    /\ \E r \in show_t_sne_arrays(metric.n, metric.dim, metric.n_samples) :
          metric' = [kind |-> "show_t_sne", n |-> metric.n, dim |-> metric.dim,
                     n_samples |-> metric.n_samples,
                     latent |-> r.latent, batch_indices |-> r.batch_indices,
                     labels |-> r.labels]
    /\ UNCHANGED <<taskVars, logged, tgt, postVars, logVars>>

NextTsne ==
    \/ ApplyTSne
    \/ ShowTSne

SpecTsne == InitTsne /\ [][NextTsne]_vars

(* the number of rows the subsampling is to leave *)
SampledRows ==
    IF metric.n_samples = 0 \/ metric.n_samples > metric.n
    THEN metric.n
    ELSE metric.n_samples

(* C24: for every latent array and every n_samples, apply_t_sne returns a  *)
(* point array and an index array of the same length, min(n_samples, N)    *)
(* when n_samples is non-zero and N otherwise, also when the codes are     *)
(* already two-dimensional; in show_t_sne the plotted points, batch        *)
(* indices and labels have the same number of rows.                        *)
C24_SameLength ==
    /\ metric.kind = "apply_t_sne" =>
          /\ Len(metric.latent.rows) = SampledRows
          /\ Len(metric.idx_t_sne) = SampledRows
    /\ metric.kind = "show_t_sne" =>
          /\ Len(metric.latent.rows) = Len(metric.batch_indices)
          /\ Len(metric.latent.rows) = Len(metric.labels)

-----------------------------------------------------------------------------
(* SpecCls: a ClassifierTask driven by the orchestrator. *)

(* ClassifierTask.__init__: the attributes it sets on the object (it does  *)
(* not call VAETask.__init__)                                              *)
ClassifierTask___init__(vae_model) ==
    [cls |-> "ClassifierTask", attrs |-> {"model"}, model |-> vae_model]

(* ClassifierTask.training_step *)
ClassifierTask_training_step(t, kw, batch, env) ==
    IF "sampling_model" \in t.attrs
    THEN Outcome(Scalar(env.ce), kw, <<>>, <<>>, <<>>)
    ELSE Outcome(Raise("AttributeError"), kw, <<>>, <<>>, <<>>)

(* the cross-entropies the model's classify output can give *)
ClsEnvs == {[env EXCEPT !.ce = Rat(k, 2)] : env \in Envs, k \in 1..MaxCells}

InitCls ==
    /\ task = ClassifierTask___init__("model")
    /\ loss_kwargs = EmptyDict
    /\ current_epoch = 0
    /\ global_step = 0
    /\ call = NoCall
    /\ ret = NoReturn
    /\ AggIdle /\ TargetIdle /\ PostIdle /\ LogIdle /\ MetricIdle

ClassifierTrainingStep ==
    \E batch \in Mappings, env \in ClsEnvs :
        LET r == ClassifierTask_training_step(task, loss_kwargs, batch, env)
        IN  /\ ret' = r.ret
            /\ loss_kwargs' = r.loss_kwargs
            /\ call' = Called("training_step", batch, 0, env, r)
            /\ UNCHANGED <<task, current_epoch, global_step, logged, tgt, postVars,
                           logVars, metric>>

NextCls ==
    \/ ClassifierTrainingStep
    \/ AdvanceStep
    \/ AdvanceEpoch

SpecCls == InitCls /\ [][NextCls]_vars

(* C16: a training step of a constructed ClassifierTask completes and      *)
(* returns the cross-entropy of the bound model's classify output against  *)
(* the minibatch's labels.                                                 *)
C16_ClassifierStep ==
    (IsTrainingStep /\ task.cls = "ClassifierTask") =>
        /\ ret.kind = "tensor"
        /\ RatEq(ret.loss, call.env.ce)

-----------------------------------------------------------------------------
(* Further claims about the training and validation steps (Spec). *)

(* the keyword arguments a VAETask built from the same configuration hands *)
(* to forward at the current counters: the caller's extras, n_obs and      *)
(* kl_weight as far as the model's loss declares them                      *)
AsVAETaskPasses ==
    LET stored == VAETask_init_loss_kwargs(task, UserKwargs(task))
    IN  IF "kl_weight" \in DOMAIN stored
        THEN DictUpdate(stored, "kl_weight", kl_weight(task, current_epoch, global_step))
        ELSE stored

SameKwargs(a, b) ==
    /\ DOMAIN a = DOMAIN b
    /\ \A k \in DOMAIN a : IF k = "kl_weight" THEN RatEq(a[k], b[k]) ELSE a[k] = b[k]

(* C17: a non-skipped optimizer-0 step of an AdvesarialTask hands forward  *)
(* the loss keyword arguments a VAETask would: the extras given at         *)
(* construction, n_obs when the model's loss accepts it, and kl_weight     *)
(* only when the model's loss accepts it.                                  *)
C17_AdvLossKwargs ==
    (Ran /\ IsAdv /\ call.optimizer_idx = 0) =>
        /\ Len(call.forward) = 1
        /\ call.forward[1].given
        /\ SameKwargs(call.forward[1].loss_kwargs, AsVAETaskPasses)

IsSemi == task.cls = "SemiSupervisedTask"

(* the record fields a step on n cells takes from the model's loss record *)
FromFullPart(r, n, env) ==
    /\ r.reconstruction_loss_sum = n * env.rec
    /\ r.kl_local_sum = n * env.kl
    /\ r.kl_global = env.kl_global
    /\ r.n_obs = n

(* C18: a non-skipped SemiSupervisedTask step makes one forward call, on   *)
(* the full part (the whole minibatch when it is a single field mapping)   *)
(* with feed_labels = False; its loss is the generative loss plus          *)
(* classification_ratio times the cross-entropy on the labelled part for a *)
(* two-part minibatch and the generative loss alone for a mapping; the     *)
(* other fields of the record come from the full part only.                *)
C18_SemiSupervisedStep ==
    (Ran /\ IsSemi) =>
        /\ call.forward = <<Forward(call.batch.n, [feed_labels |-> FALSE])>>
        /\ ret.kind = "dict"
        /\ IsMapping(call.batch) => RatEq(ret.loss, call.env.loss)
        /\ ~IsMapping(call.batch) =>
              RatEq(ret.loss,
                    RatAdd(call.env.loss, RatMul(RatOfInt(classification_ratio), call.env.ce)))
        /\ FromFullPart(ret, call.batch.n, call.env)

(* a two-part minibatch: 3 cells in the full part, 1 labelled cell *)
C18_Witness ==
    /\ Ran /\ IsSemi
    /\ call.batch = TwoPart(3, 1)
    /\ RatEq(ret.loss, RatOfInt(30))
    /\ ret.n_obs = 3

(* kappa as the specification prescribes it at the current counters *)
PrescribedKappa ==
    IF task.scale_adversarial_loss.auto
    THEN RatSub(One, PrescribedKlWeight)
    ELSE task.scale_adversarial_loss.val

Fooling == RatLess(Zero, PrescribedKappa) /\ task.adversarial_classifier # FALSE

C20_ValidationStep ==
    call.op = "validation_step" =>
        /\ ret.kind = "dict"
        /\ "loss" \notin DOMAIN ret
        /\ FromFullPart(ret, call.batch.n, call.env)
        /\ Len(call.forward) = 1
        /\ call.forward[1].given
        /\ SameKwargs(call.forward[1].loss_kwargs, loss_kwargs)

-----------------------------------------------------------------------------
(* SpecAdvEnd: AdvesarialTask.training_epoch_end, and the three places of  *)
(* the task that ask whether an adversarial classifier is in use.          *)

(* Python values the adversarial_classifier argument can take (line 252:   *)
(* Union[bool, Classifier]): a bool, or a classifier module                *)
PyBool(b) == [type |-> "bool", value |-> b]
Classifier(n_hidden, n_layers) ==
    [type |-> "Classifier", n_hidden |-> n_hidden, n_layers |-> n_layers, logits |-> TRUE]

ClassifierArgs == {PyBool(FALSE), PyBool(TRUE), Classifier(64, 3)}

(* `x is True`, `x is not False`: identity with the bool singletons *)
is_True(x) == x = PyBool(TRUE)
is_not_False(x) == x # PyBool(FALSE)

(* truth value of a classifier module: the class defines neither __bool__  *)
(* nor __len__, so an instance is true                                     *)
Classifier___bool__(m) == TRUE

(* truth value testing, as `if x:` does it *)
bool(x) == IF x.type = "bool" THEN x.value ELSE Classifier___bool__(x)

(* lines 268-277: what __init__ stores in self.adversarial_classifier *)
AdvesarialTask___init___classifier(adversarial_classifier) ==
    IF is_True(adversarial_classifier)
    THEN Classifier(32, 2)
    ELSE adversarial_classifier

(* line 316: training_step fools the classifier only if there is one *)
training_step_active(t) == is_not_False(t.adversarial_classifier)

(* line 370: configure_optimizers builds the second optimizer *)
configure_optimizers_active(t) == is_not_False(t.adversarial_classifier)

(* line 343 tested with `is True`, as __init__ tests its argument *)
training_epoch_end_active_IsTrue(t) == is_True(t.adversarial_classifier)

(* line 343: training_epoch_end takes the first element of outputs *)
training_epoch_end_active(t) == bool(t.adversarial_classifier)

(* the outputs of an epoch, as the orchestrator hands them over: with one  *)
(* optimizer the list of step records, with two a list holding one list of *)
(* step results per optimizer                                              *)
Records(list) == [shape |-> "records", list |-> list]
PerOptimizer(list0, list1) == [shape |-> "lists", lists |-> <<list0, list1>>]
Record(tensors) == [shape |-> "record", tensors |-> tensors]

(* outputs[0] *)
getitem0(outputs) ==
    IF outputs.shape = "lists" THEN Records(outputs.lists[1])
    ELSE IF outputs.list = <<>> THEN Raise("IndexError")
    ELSE Record(outputs.list[1])

(* VAETask.training_epoch_end on whatever it is handed: a list of step     *)
(* records is aggregated; iterating anything else yields elements that     *)
(* cannot be indexed by a field name (line 119)                            *)
super_training_epoch_end(outputs) ==
    IF "kind" \in DOMAIN outputs THEN outputs
    ELSE IF outputs.shape = "records" THEN VAETask_training_epoch_end(outputs.list)
    ELSE Raise("TypeError")

(* AdvesarialTask.training_epoch_end, lines 341-346: the list handed to    *)
(* the base handler, and that handler's outcome                            *)
AdvesarialTask_training_epoch_end(t, outputs) ==
    LET handed == IF training_epoch_end_active(t) THEN getitem0(outputs) ELSE outputs
    IN  [handed |-> handed, out |-> super_training_epoch_end(handed)]

(* the step results of the classifier's optimizer: one loss per step *)
ClassifierLosses(n) == [i \in 1..n |-> Scalar(Rat(i, 2))]

AdvTasks ==
    {[cls |-> "AdvesarialTask",
      adversarial_classifier |-> AdvesarialTask___init___classifier(a)] : a \in ClassifierArgs}

(* the orchestrator collects one list per optimizer when                   *)
(* configure_optimizers returned two of them                               *)
EpochOutputs(t, list) ==
    IF configure_optimizers_active(t)
    THEN PerOptimizer(list, ClassifierLosses(Len(list)))
    ELSE Records(list)

InitAdvEnd ==
    /\ task \in AdvTasks
    /\ loss_kwargs = EmptyDict
    /\ current_epoch = 0
    /\ global_step = 0
    /\ call = NoCall
    /\ ret = NoReturn
    /\ \E list \in OutputLists :
           /\ \A i \in 1..Len(list) : ~TooSmall(list[i].n_obs)
           /\ logged = [kind |-> "outputs", outputs |-> EpochOutputs(task, list)]
    /\ TargetIdle /\ PostIdle /\ LogIdle /\ MetricIdle

AdvTrainingEpochEnd ==
    /\ logged.kind = "outputs"
    /\ LET r == AdvesarialTask_training_epoch_end(task, logged.outputs)
       IN  logged' = [kind |-> "epoch_end", op |-> "training_epoch_end",
                      outputs |-> logged.outputs,
                      handed |-> r.handed,
                      out |-> r.out]
    /\ UNCHANGED <<task, loss_kwargs, current_epoch, global_step, call, ret, tgt,
                   postVars, logVars, metric>>

NextAdvEnd == AdvTrainingEpochEnd

SpecAdvEnd == InitAdvEnd /\ [][NextAdvEnd]_vars

(* Claims about the adversarial task's epoch end (SpecAdvEnd). *)

AdvEpochEnded == logged.kind = "epoch_end" /\ "handed" \in DOMAIN logged

(* C21: AdvesarialTask.training_epoch_end aggregates only the first        *)
(* element of the per-optimizer outputs exactly when training_step and     *)
(* configure_optimizers treat the classifier as in use, and aggregates the *)
(* outputs list itself, as the base task does, exactly when they treat it  *)
(* as disabled; the three places agree on whether it is in use.            *)
C21_EpochEndAgreement ==
    AdvEpochEnded =>
        /\ training_step_active(task) = configure_optimizers_active(task)
        /\ configure_optimizers_active(task) = training_epoch_end_active(task)
        /\ training_step_active(task) =>
              /\ logged.outputs.shape = "lists"
              /\ logged.handed = Records(logged.outputs.lists[1])
              /\ logged.out = VAETask_training_epoch_end(logged.outputs.lists[1])
        /\ ~training_step_active(task) =>
              /\ logged.outputs.shape = "records"
              /\ logged.handed = logged.outputs
              /\ logged.out = VAETask_training_epoch_end(logged.outputs.list)

(* a pre-built classifier and an epoch of two steps, whose optimizer-0     *)
(* records were aggregated and logged                                      *)
C21_Witness ==
    /\ AdvEpochEnded
    /\ task.adversarial_classifier = Classifier(64, 3)
    /\ logged.outputs.shape = "lists"
    /\ Len(logged.outputs.lists[1]) = 2
    /\ logged.out.kind = "logged"

====
